---- MODULE Spec2Model ----
(***************************************************************************)
(* Model of the jsonstat accumulator (src/src/lib.rs): the running         *)
(* aggregates MaxMinCount<T> and Count, the per-path JsonStatItem, and the *)
(* JsonStat accumulator with stat_str, stat_value, get_group_key and merge.*)
(*                                                                         *)
(* Text is a sequence of one-character strings, so that format! is         *)
(* concatenation and split('.') is a scan.  Integers wider than the        *)
(* checker's machine integers (u64, i64, the f64 significand) are bit      *)
(* sequences, most significant bit first, without leading zeros.           *)
(***************************************************************************)
EXTENDS Integers, Sequences, FiniteSets, TLC

(***************************************************************************)
(* Unsigned big naturals as bit sequences.                                  *)
(***************************************************************************)
Zeros(n) == [i \in 1..n |-> 0]

Ones(n) == [i \in 1..n |-> 1]

Pow2(n) == <<1>> \o Zeros(n)

RECURSIVE NatToBits(_)
NatToBits(n) ==
    IF n = 0 THEN <<>> ELSE NatToBits(n \div 2) \o <<n % 2>>

BigLt(a, b) ==
    IF Len(a) # Len(b) THEN Len(a) < Len(b)
    ELSE \E i \in 1..Len(a) :
            /\ a[i] < b[i]
            /\ \A j \in 1..(i - 1) : a[j] = b[j]

BigLeq(a, b) == a = b \/ BigLt(a, b)

RECURSIVE BigInc(_)
BigInc(a) ==
    IF a = <<>> THEN <<1>>
    ELSE IF a[Len(a)] = 0 THEN SubSeq(a, 1, Len(a) - 1) \o <<1>>
    ELSE BigInc(SubSeq(a, 1, Len(a) - 1)) \o <<0>>

\* the integer widths of the Rust types
U64_BITS == 64

I64_BITS == 63

F64_MANT_BITS == 53

U64_MAX == Ones(U64_BITS)

I64_MAX == Ones(I64_BITS)

I64_MIN_MAG == Pow2(I64_BITS)

(***************************************************************************)
(* i64 values: sign and magnitude; zero is [neg |-> FALSE, mag |-> <<>>].  *)
(***************************************************************************)
I64(neg, mag) == [neg |-> neg, mag |-> mag]

I64Lt(a, b) ==
    IF a.neg /\ ~b.neg THEN TRUE
    ELSE IF ~a.neg /\ b.neg THEN FALSE
    ELSE IF a.neg THEN BigLt(b.mag, a.mag)
    ELSE BigLt(a.mag, b.mag)

(***************************************************************************)
(* f64 values.  Every float of the model is a multiple of one half, held   *)
(* as the sign and twice the magnitude, rounded to the 53-bit significand  *)
(* (round to nearest, ties to even).  -0.0 is [neg |-> TRUE, twice |-> <<>>]*)
(***************************************************************************)
F64(neg, twice) == [neg |-> neg, twice |-> twice]

RoundToF64(m) ==
    IF Len(m) <= F64_MANT_BITS THEN m
    ELSE LET keep == SubSeq(m, 1, F64_MANT_BITS)
             rest == SubSeq(m, F64_MANT_BITS + 1, Len(m))
             k    == Len(rest)
             tail == \E i \in 2..k : rest[i] = 1
             up   == rest[1] = 1 /\ (tail \/ keep[F64_MANT_BITS] = 1)
         IN  (IF up THEN BigInc(keep) ELSE keep) \o Zeros(k)

\* PartialOrd on f64: -0.0 and 0.0 are equal, so neither is below the other
F64Lt(a, b) ==
    IF a.twice = <<>> /\ b.twice = <<>> THEN FALSE
    ELSE IF a.neg /\ ~b.neg THEN TRUE
    ELSE IF ~a.neg /\ b.neg THEN FALSE
    ELSE IF a.neg THEN BigLt(b.twice, a.twice)
    ELSE BigLt(a.twice, b.twice)

\* `n as f64` for an integer magnitude
IntToF64(neg, mag) ==
    F64(neg, RoundToF64(IF mag = <<>> THEN <<>> ELSE mag \o <<0>>))

(***************************************************************************)
(* serde_json::Number: PosInt(u64), NegInt(i64) or Float(f64).             *)
(***************************************************************************)
PosInt(mag) == [k |-> "PosInt", mag |-> mag]

NegInt(mag) == [k |-> "NegInt", mag |-> mag]

Float(f) == [k |-> "Float", f |-> f]

None == [some |-> FALSE]

Some(v) == [some |-> TRUE, v |-> v]

as_i64(n) ==
    CASE n.k = "PosInt" ->
            IF BigLeq(n.mag, I64_MAX) THEN Some(I64(FALSE, n.mag)) ELSE None
      [] n.k = "NegInt" -> Some(I64(TRUE, n.mag))
      [] n.k = "Float"  -> None

as_f64(n) ==
    CASE n.k = "PosInt" -> Some(IntToF64(FALSE, n.mag))
      [] n.k = "NegInt" -> Some(IntToF64(TRUE, n.mag))
      [] n.k = "Float"  -> Some(n.f)

(***************************************************************************)
(* A number as written in JSON text: optional minus sign, the integer      *)
(* digits (their value), and the fraction part: "none" (no '.'), "0" for   *)
(* ".0" or "5" for ".5".                                                   *)
(***************************************************************************)
Lit(neg, mag, frac) == [neg |-> neg, mag |-> mag, frac |-> frac]

\* serde_json's number parser: a fraction makes a Float; an integer that
\* overflows u64 makes a Float; a negative integer below i64::MIN, and "-0",
\* make a Float; the rest are PosInt or NegInt.
ParseNumber(lit) ==
    IF lit.frac # "none"
    THEN Float(F64(lit.neg, RoundToF64(
            IF lit.frac = "5" THEN lit.mag \o <<1>>
            ELSE IF lit.mag = <<>> THEN <<>> ELSE lit.mag \o <<0>>)))
    ELSE IF ~BigLeq(lit.mag, U64_MAX) THEN Float(IntToF64(lit.neg, lit.mag))
    ELSE IF ~lit.neg THEN PosInt(lit.mag)
    ELSE IF lit.mag = <<>> \/ BigLt(I64_MIN_MAG, lit.mag)
         THEN Float(IntToF64(TRUE, lit.mag))
    ELSE NegInt(lit.mag)

(***************************************************************************)
(* Text: sequences of one-character strings.                                *)
(***************************************************************************)
\* first UTF-8 byte of each character of the model's alphabet
Code(c) ==
    CASE c = "." -> 46  [] c = "1" -> 49  [] c = "[" -> 91  [] c = "]" -> 93
      [] c = "a" -> 97  [] c = "b" -> 98  [] c = "d" -> 100 [] c = "e" -> 101
      [] c = "i" -> 105 [] c = "r" -> 114 [] c = "s" -> 115 [] c = "u" -> 117
      [] c = "x" -> 120 [] c = "é" -> 195

\* number of UTF-8 bytes of a character
Utf8Len(c) == IF c = "é" THEN 2 ELSE 1

\* str::len(): the length in bytes
RECURSIVE StrLen(_)
StrLen(s) == IF s = <<>> THEN 0 ELSE Utf8Len(Head(s)) + StrLen(Tail(s))

\* Ord on String: byte-wise lexicographic
StrLt(a, b) ==
    \/ /\ Len(a) < Len(b)
       /\ \A j \in 1..Len(a) : a[j] = b[j]
    \/ \E i \in 1..Len(a) :
          /\ i <= Len(b)
          /\ Code(a[i]) < Code(b[i])
          /\ \A j \in 1..(i - 1) : a[j] = b[j]

\* the keys of a BTreeMap in iteration order
RECURSIVE SortedKeys(_)
SortedKeys(S) ==
    IF S = {} THEN <<>>
    ELSE LET m == CHOOSE k \in S : \A o \in S \ {k} : StrLt(k, o)
         IN  <<m>> \o SortedKeys(S \ {m})

\* key.split('.'): the segments between the dots (always at least one)
RECURSIVE Split(_, _)
Split(s, cur) ==
    IF s = <<>> THEN <<cur>>
    ELSE IF Head(s) = "." THEN <<cur>> \o Split(Tail(s), <<>>)
    ELSE Split(Tail(s), Append(cur, Head(s)))

(***************************************************************************)
(* serde_json::Value                                                        *)
(***************************************************************************)
JNull == [t |-> "Null"]

JBool(b) == [t |-> "Bool", b |-> b]

JNum(n) == [t |-> "Number", n |-> n]

JStr(s) == [t |-> "String", s |-> s]

JArr(a) == [t |-> "Array", a |-> a]

\* an object is a map from field name to value (serde_json::Map, a BTreeMap)
JObj(o) == [t |-> "Object", o |-> o]

EmptyMap == <<>>

\* Map::insert: a repeated key keeps the last value
MapInsert(m, k, v) == [x \in DOMAIN m \cup {k} |-> IF x = k THEN v ELSE m[x]]

(***************************************************************************)
(* serde_json::from_str over a line of tokens.                              *)
(***************************************************************************)
Punct(c) == [t |-> "punct", c |-> c]

Word(w) == [t |-> "word", w |-> w]

StrTok(s) == [t |-> "str", s |-> s]

NumTok(lit) == [t |-> "num", lit |-> lit]

IsPunct(toks, i, c) ==
    /\ i <= Len(toks)
    /\ toks[i].t = "punct"
    /\ toks[i].c = c

Err == [ok |-> FALSE]

Ok(v, i) == [ok |-> TRUE, v |-> v, i |-> i]

RECURSIVE ParseValue(_, _)
RECURSIVE ParseElems(_, _, _)
RECURSIVE ParseMembers(_, _, _)
\* parse one value starting at token i; on success i is the next position
ParseValue(toks, i) ==
    IF i > Len(toks) THEN Err
    ELSE LET tk == toks[i] IN
         CASE tk.t = "word" ->
                CASE tk.w = "null"  -> Ok(JNull, i + 1)
                  [] tk.w = "true"  -> Ok(JBool(TRUE), i + 1)
                  [] tk.w = "false" -> Ok(JBool(FALSE), i + 1)
                  [] OTHER          -> Err
           [] tk.t = "num" -> Ok(JNum(ParseNumber(tk.lit)), i + 1)
           [] tk.t = "str" -> Ok(JStr(tk.s), i + 1)
           [] tk.t = "punct" ->
                CASE tk.c = "[" ->
                        IF IsPunct(toks, i + 1, "]") THEN Ok(JArr(<<>>), i + 2)
                        ELSE ParseElems(toks, i + 1, <<>>)
                  [] tk.c = "{" ->
                        IF IsPunct(toks, i + 1, "}") THEN Ok(JObj(EmptyMap), i + 2)
                        ELSE ParseMembers(toks, i + 1, EmptyMap)
                  [] OTHER -> Err

ParseElems(toks, i, acc) ==
    LET r == ParseValue(toks, i) IN
    IF ~r.ok THEN Err
    ELSE IF IsPunct(toks, r.i, ",") THEN ParseElems(toks, r.i + 1, Append(acc, r.v))
    ELSE IF IsPunct(toks, r.i, "]") THEN Ok(JArr(Append(acc, r.v)), r.i + 1)
    ELSE Err

ParseMembers(toks, i, acc) ==
    IF ~(i <= Len(toks) /\ toks[i].t = "str") THEN Err
    ELSE IF ~IsPunct(toks, i + 1, ":") THEN Err
    ELSE LET r == ParseValue(toks, i + 2) IN
         IF ~r.ok THEN Err
         ELSE LET m == MapInsert(acc, toks[i].s, r.v) IN
              IF IsPunct(toks, r.i, ",") THEN ParseMembers(toks, r.i + 1, m)
              ELSE IF IsPunct(toks, r.i, "}") THEN Ok(JObj(m), r.i + 1)
              ELSE Err

\* from_str: one value and then the end of the input
from_str(line) ==
    LET r == ParseValue(line, 1) IN
    IF r.ok /\ r.i = Len(line) + 1 THEN [ok |-> TRUE, v |-> r.v] ELSE Err

(***************************************************************************)
(* MaxMinCount<T> and Count.  T is "usize", "i64" or "f64".                 *)
(***************************************************************************)
\* PartialOrd of T: a < b
Lt(T, a, b) ==
    CASE T = "usize" -> a < b
      [] T = "i64"   -> I64Lt(a, b)
      [] T = "f64"   -> F64Lt(a, b)

\* T::default()
Default(T) ==
    CASE T = "usize" -> 0
      [] T = "i64"   -> I64(FALSE, <<>>)
      [] T = "f64"   -> F64(FALSE, <<>>)

MaxMinCount_new(T) == [count |-> 0, max |-> Default(T), min |-> Default(T)]

MaxMinCount_add(T, self, new_value) ==
    IF self.count = 0
    THEN [count |-> 1, max |-> new_value, min |-> new_value]
    ELSE [count |-> self.count + 1,
          max   |-> IF Lt(T, self.max, new_value) THEN new_value ELSE self.max,
          min   |-> IF Lt(T, new_value, self.min) THEN new_value ELSE self.min]

MaxMinCount_merge(T, self, other) ==
    IF self.count = 0
    THEN [count |-> other.count, max |-> other.max, min |-> other.min]
    ELSE [count |-> self.count + other.count,
          max   |-> IF Lt(T, self.max, other.max) THEN other.max ELSE self.max,
          min   |-> IF Lt(T, other.min, self.min) THEN other.min ELSE self.min]

Count_new == [count |-> 0]

\* mutant of Count_add: the increment is lost
Count_add_no_increment(self) == [count |-> self.count]

Count_add(self) == [count |-> self.count + 1]

Count_merge(self, other) == [count |-> self.count + other.count]

(***************************************************************************)
(* JsonStatItem                                                             *)
(***************************************************************************)
\* the element type of each ordered aggregate
TypeOf(kind) ==
    CASE kind = "string" -> "usize"
      [] kind = "int"    -> "i64"
      [] kind = "float"  -> "f64"
      [] kind = "array"  -> "usize"

OrderedKinds == {"string", "int", "float", "array"}

CounterKinds == {"bool", "null", "object"}

Kinds == OrderedKinds \cup CounterKinds

JsonStatItem_new ==
    [string |-> MaxMinCount_new("usize"),
     int    |-> MaxMinCount_new("i64"),
     float  |-> MaxMinCount_new("f64"),
     bool   |-> Count_new,
     null   |-> Count_new,
     object |-> Count_new,
     array  |-> MaxMinCount_new("usize")]

JsonStatItem_merge(self, other) ==
    [string |-> MaxMinCount_merge("usize", self.string, other.string),
     int    |-> MaxMinCount_merge("i64", self.int, other.int),
     float  |-> MaxMinCount_merge("f64", self.float, other.float),
     bool   |-> Count_merge(self.bool, other.bool),
     null   |-> Count_merge(self.null, other.null),
     object |-> Count_merge(self.object, other.object),
     array  |-> MaxMinCount_merge("usize", self.array, other.array)]

\* mutant of StatNumber: the float test comes first
StatNumber_float_first(self, n) ==
    IF as_f64(n).some
    THEN [self EXCEPT !.float = MaxMinCount_add("f64", @, as_f64(n).v)]
    ELSE IF as_i64(n).some
    THEN [self EXCEPT !.int = MaxMinCount_add("i64", @, as_i64(n).v)]
    ELSE self

\* the Number arm of stat: int if as_i64 answers, else float if as_f64 does
StatNumber(self, n) ==
    IF as_i64(n).some
    THEN [self EXCEPT !.int = MaxMinCount_add("i64", @, as_i64(n).v)]
    ELSE IF as_f64(n).some
    THEN [self EXCEPT !.float = MaxMinCount_add("f64", @, as_f64(n).v)]
    ELSE self

\* mutant of JsonStatItem_stat: the path of a field is built without the dot
JsonStatItem_stat_no_dot(self, key, data) ==
    CASE data.t = "String" ->
            [item |-> [self EXCEPT !.string = MaxMinCount_add("usize", @, StrLen(data.s))],
             ret  |-> <<>>]
      [] data.t = "Number" ->
            [item |-> StatNumber(self, data.n), ret |-> <<>>]
      [] data.t = "Null" ->
            [item |-> [self EXCEPT !.null = Count_add(@)], ret |-> <<>>]
      [] data.t = "Bool" ->
            [item |-> [self EXCEPT !.bool = Count_add(@)], ret |-> <<>>]
      [] data.t = "Array" ->
            [item |-> [self EXCEPT !.array = MaxMinCount_add("usize", @, Len(data.a))],
             ret  |-> [j \in 1..Len(data.a) |-> <<key \o <<"[", "]">>, data.a[j]>>]]
      [] data.t = "Object" ->
            LET ks == SortedKeys(DOMAIN data.o) IN
            [item |-> [self EXCEPT !.object = Count_add(@)],
             ret  |-> [j \in 1..Len(ks) |-> <<key \o ks[j], data.o[ks[j]]>>]]

\* stat: the updated item and the (path, value) pairs still to visit
JsonStatItem_stat(self, key, data) ==
    CASE data.t = "String" ->
            [item |-> [self EXCEPT !.string = MaxMinCount_add("usize", @, StrLen(data.s))],
             ret  |-> <<>>]
      [] data.t = "Number" ->
            [item |-> StatNumber(self, data.n), ret |-> <<>>]
      [] data.t = "Null" ->
            [item |-> [self EXCEPT !.null = Count_add(@)], ret |-> <<>>]
      [] data.t = "Bool" ->
            [item |-> [self EXCEPT !.bool = Count_add(@)], ret |-> <<>>]
      [] data.t = "Array" ->
            [item |-> [self EXCEPT !.array = MaxMinCount_add("usize", @, Len(data.a))],
             ret  |-> [j \in 1..Len(data.a) |-> <<key \o <<"[", "]">>, data.a[j]>>]]
      [] data.t = "Object" ->
            LET ks == SortedKeys(DOMAIN data.o) IN
            [item |-> [self EXCEPT !.object = Count_add(@)],
             ret  |-> [j \in 1..Len(ks) |-> <<key \o <<".">> \o ks[j], data.o[ks[j]]>>]]

(***************************************************************************)
(* JsonStat                                                                 *)
(***************************************************************************)
JsonStat_new == [items |-> EmptyMap, group_key |-> None]

new_by_group(group_key) == [items |-> EmptyMap, group_key |-> Some(group_key)]

\* the loop of get_group_key: follow the segments through nested objects
RECURSIVE GroupWalk(_, _)
GroupWalk(val, segs) ==
    IF segs = <<>> THEN Some(val)
    ELSE IF val.t # "Object" THEN None
    ELSE IF Head(segs) \notin DOMAIN val.o THEN None
    ELSE GroupWalk(val.o[Head(segs)], Tail(segs))

\* mutant of get_group_key: the key is looked up whole, not split at the dots
get_group_key_no_split(self, value) ==
    IF self.group_key.some
    THEN LET r == GroupWalk(value, <<self.group_key.v>>) IN
         IF r.some /\ r.v.t = "String" THEN r.v.s ELSE <<>>
    ELSE <<>>

get_group_key(self, value) ==
    IF self.group_key.some
    THEN LET r == GroupWalk(value, Split(self.group_key.v, <<>>)) IN
         IF r.some /\ r.v.t = "String" THEN r.v.s ELSE <<>>
    ELSE <<>>

stat_key_value(key, value) == JsonStatItem_stat(JsonStatItem_new, key, value)

\* one turn of the while loop of stat_value on the work item at position i
\* (the code pops the last one)
StatStep(items, todo_list, i) ==
    LET k    == todo_list[i][1]
        v    == todo_list[i][2]
        r    == stat_key_value(k, v)
        rest == SubSeq(todo_list, 1, i - 1)
                  \o SubSeq(todo_list, i + 1, Len(todo_list))
    IN  [items     |-> IF k \in DOMAIN items
                       THEN [items EXCEPT ![k] = JsonStatItem_merge(@, r.item)]
                       ELSE MapInsert(items, k, r.item),
         todo_list |-> rest \o r.ret]

RECURSIVE StatLoop(_, _)
StatLoop(items, todo_list) ==
    IF todo_list = <<>> THEN items
    ELSE LET s == StatStep(items, todo_list, Len(todo_list))
         IN  StatLoop(s.items, s.todo_list)

\* stat_value: the accumulator after the call (the call returns true)
stat_value(self, value) ==
    [self EXCEPT !.items =
        StatLoop(self.items, << <<get_group_key(self, value), value>> >>)]

\* mutant of stat_str: a line that does not parse is counted as a null
stat_str_counts_failure(self, line) ==
    LET p == from_str(line) IN
    IF p.ok THEN [self |-> stat_value(self, p.v), ret |-> TRUE]
    ELSE [self |-> stat_value(self, JNull), ret |-> FALSE]

\* stat_str: the accumulator after the call and the returned flag
stat_str(self, line) ==
    LET p == from_str(line) IN
    IF p.ok THEN [self |-> stat_value(self, p.v), ret |-> TRUE]
    ELSE [self |-> self, ret |-> FALSE]

\* JsonStat::merge
JsonStat_merge(self, other) ==
    [self EXCEPT !.items =
        [k \in DOMAIN self.items \cup DOMAIN other.items |->
            IF k \in DOMAIN self.items /\ k \in DOMAIN other.items
            THEN JsonStatItem_merge(self.items[k], other.items[k])
            ELSE IF k \in DOMAIN other.items THEN other.items[k]
            ELSE self.items[k]]]

(***************************************************************************)
(* Inputs: the documents and the lines handed to the accumulators.          *)
(***************************************************************************)
s_x == <<"x">>

s_a == <<"a">>

s_b == <<"b">>

s_user == <<"u", "s", "e", "r">>

s_id == <<"i", "d">>

s_u1 == <<"u", "1">>

s_a_dot_b == <<"a", ".", "b">>

s_x_arr == <<"x", "[", "]">>

s_user_id == <<"u", "s", "e", "r", ".", "i", "d">>

\* a small integer (json!(n)) and a float given as twice its magnitude
JInt(n) ==
    IF n < 0 THEN JNum(NegInt(NatToBits(-n))) ELSE JNum(PosInt(NatToBits(n)))

JFloat(neg, twice) == JNum(Float(F64(neg, NatToBits(twice))))

Obj1(k, v) == JObj(MapInsert(EmptyMap, k, v))

Obj2(k1, v1, k2, v2) == JObj(MapInsert(MapInsert(EmptyMap, k1, v1), k2, v2))

\* {"x":5}   {"x":"a"}   {"x":-3}   {"x":2.5}   {"x":-1.5}
DocInt5 == Obj1(s_x, JInt(5))

DocStrA == Obj1(s_x, JStr(s_a))

DocNeg3 == Obj1(s_x, JInt(-3))

DocFlt25 == Obj1(s_x, JFloat(FALSE, 5))

DocFltNeg15 == Obj1(s_x, JFloat(TRUE, 3))

\* {"x":[5,"a"]}   {"x":["é","u1"]}   [1,null]
DocMixedArr == Obj1(s_x, JArr(<<JInt(5), JStr(s_a)>>))

DocStrArr == Obj1(s_x, JArr(<<JStr(<<"é">>), JStr(s_u1)>>))

DocTopArr == JArr(<<JInt(1), JNull>>)

\* {"user":{"id":"u1"},"x":1}   {"user":{"id":7},"x":true}   {"user":"u1"}   {"x":1}
DocU1 == Obj2(s_user, Obj1(s_id, JStr(s_u1)), s_x, JInt(1))

DocIdNotStr == Obj2(s_user, Obj1(s_id, JInt(7)), s_x, JBool(TRUE))

DocUserNotObj == Obj1(s_user, JStr(s_u1))

DocNoUser == Obj1(s_x, JInt(1))

\* {"a.b":1,"a":{"b":null}}   {"x[]":true,"x":[1,1]}   {"a":{"b":1}}
DocDotName == Obj2(s_a_dot_b, JInt(1), s_a, Obj1(s_b, JNull))

DocArrName == Obj2(s_x_arr, JBool(TRUE), s_x, JArr(<<JInt(1), JInt(1)>>))

DocNested == Obj1(s_a, Obj1(s_b, JInt(1)))

\* the lines of text, as tokens
NumLine(neg, mag, frac) == <<NumTok(Lit(neg, mag, frac))>>

ObjLine(k, valueToks) ==
    <<Punct("{"), StrTok(k), Punct(":")>> \o valueToks \o <<Punct("}")>>

\* {"x":5}   {"x":"a"}   {"x":3.0}   {"x":[5,"a"]}   {"x":1,"x":null}
LineInt5 == ObjLine(s_x, NumLine(FALSE, NatToBits(5), "none"))

LineStrA == ObjLine(s_x, <<StrTok(s_a)>>)

LineFlt30 == ObjLine(s_x, NumLine(FALSE, NatToBits(3), "0"))

LineMixedArr ==
    ObjLine(s_x, <<Punct("["), NumTok(Lit(FALSE, NatToBits(5), "none")),
                   Punct(","), StrTok(s_a), Punct("]")>>)

LineDupKey ==
    <<Punct("{"), StrTok(s_x), Punct(":"), NumTok(Lit(FALSE, NatToBits(1), "none")),
      Punct(","), StrTok(s_x), Punct(":"), Word("null"), Punct("}")>>

\* not json   (empty)   {"x":5   {"x":5,}   {"x" 5}   [5,]   {"x":5}}   {x:5}
LineNotJson == <<Word("not"), Word("json")>>

LineEmpty == <<>>

LineTruncated == SubSeq(LineInt5, 1, 4)

LineTrailingComma == SubSeq(LineInt5, 1, 4) \o <<Punct(","), Punct("}")>>

LineNoColon == <<Punct("{"), StrTok(s_x), NumTok(Lit(FALSE, NatToBits(5), "none")), Punct("}")>>

LineArrComma == <<Punct("["), NumTok(Lit(FALSE, NatToBits(5), "none")), Punct(","), Punct("]")>>

LineTrailingBrace == LineInt5 \o <<Punct("}")>>

LineBareKey == <<Punct("{"), Word("x"), Punct(":"), NumTok(Lit(FALSE, NatToBits(5), "none")), Punct("}")>>

\* lines that are JSON values, and lines that are not
GoodLines == {LineInt5, LineStrA, LineFlt30, LineMixedArr, LineDupKey}

BadLines == {LineNotJson, LineEmpty, LineTruncated, LineTrailingComma,
             LineNoColon, LineArrComma, LineTrailingBrace, LineBareKey}

(***************************************************************************)
(* The state machine: NAcc accumulators, fed and merged by their owner.     *)
(***************************************************************************)
\* number of accumulators
NAcc == 2

\* documents ingested in one run, over all accumulators
MaxDocs == 2

\* lines of the file fed to a single accumulator in one run
MaxFileLines == 3

\* merges in one run
MaxMerges == 1

\* documents traversed step by step in one run
MaxTravDocs == 2

Accs == 1..NAcc

VARIABLES
    stat,      \* stat[a]: the JsonStat accumulator a (items, group_key)
    ret,       \* the value returned by the last stat_str / stat_value call
    last,      \* the last call: [op, acc, arg]
    input,     \* history: the documents ingested so far, in order
    hist,      \* history: hist[a] is the positions of input folded into a
    merges,    \* number of merge calls so far
    trav       \* a stat_value call observed turn by turn

vars == <<stat, ret, last, input, hist, merges, trav>>

TravIdle ==
    [items |-> EmptyMap, todo_list |-> <<>>, start |-> EmptyMap,
     doc |-> JNull, n |-> 0, active |-> FALSE]

\* every accumulator of a run is constructed with the same grouping key
InitWith(GroupKeys) ==
    /\ \E g \in GroupKeys :
          stat = [a \in Accs |-> IF g.some THEN new_by_group(g.v) ELSE JsonStat_new]
    /\ ret = TRUE
    /\ last = [op |-> "new", acc |-> 0, arg |-> 0]
    /\ input = <<>>
    /\ hist = [a \in Accs |-> <<>>]
    /\ merges = 0
    /\ trav = TravIdle

Init == InitWith({None})

\* stat[a].stat_value(&d) for an accumulator a of A and a document d of D,
\* in a run of at most max documents
StatValueOp(A, D, max) ==
    \E a \in A, d \in D :
        /\ Len(input) < max
        /\ stat' = [stat EXCEPT ![a] = stat_value(@, d)]
        /\ ret' = TRUE
        /\ last' = [op |-> "stat_value", acc |-> a, arg |-> d]
        /\ input' = Append(input, d)
        /\ hist' = [hist EXCEPT ![a] = Append(@, Len(input) + 1)]
        /\ UNCHANGED <<merges, trav>>

\* stat[a].stat_str(&line) for an accumulator a of A and a line of L, in a
\* run of at most max documents
StatStrOp(A, L, max) ==
    \E a \in A, line \in L :
        LET r == stat_str(stat[a], line) IN
        /\ r.ret => Len(input) < max
        /\ stat' = [stat EXCEPT ![a] = r.self]
        /\ ret' = r.ret
        /\ last' = [op |-> "stat_str", acc |-> a, arg |-> line]
        /\ input' = IF r.ret THEN Append(input, from_str(line).v) ELSE input
        /\ hist' = IF r.ret THEN [hist EXCEPT ![a] = Append(@, Len(input) + 1)]
                   ELSE hist
        /\ UNCHANGED <<merges, trav>>

\* stat[a].merge(&stat[b]) for two accumulators of A
MergeOp(A) ==
    \E a \in A, b \in A :
        /\ a # b
        /\ merges < MaxMerges
        /\ stat' = [stat EXCEPT ![a] = JsonStat_merge(@, stat[b])]
        /\ last' = [op |-> "merge", acc |-> a, arg |-> b]
        /\ hist' = [hist EXCEPT ![a] = @ \o hist[b]]
        /\ merges' = merges + 1
        /\ UNCHANGED <<ret, input, trav>>

\* ---- the accumulator observed turn by turn (the while loop of stat_value)

\* seed the work list with (group key, value)
TravBegin(D) ==
    \E d \in D :
        /\ ~trav.active \/ trav.todo_list = <<>>
        /\ trav.n < MaxTravDocs
        /\ trav' = [items     |-> trav.items,
                    todo_list |-> << <<get_group_key(JsonStat_new, d), d>> >>,
                    start     |-> trav.items,
                    doc       |-> d,
                    n         |-> trav.n + 1,
                    active    |-> TRUE]
        /\ last' = [op |-> "trav_begin", acc |-> 0, arg |-> d]
        /\ UNCHANGED <<stat, ret, input, hist, merges>>

\* one turn of the loop, on any pending work item (the code takes the last)
TravStep ==
    \E i \in 1..Len(trav.todo_list) :
        LET s == StatStep(trav.items, trav.todo_list, i) IN
        /\ trav.active
        /\ trav' = [trav EXCEPT !.items = s.items, !.todo_list = s.todo_list]
        /\ last' = [op |-> "trav_step", acc |-> 0, arg |-> i]
        /\ UNCHANGED <<stat, ret, input, hist, merges>>

(***************************************************************************)
(* Specifications.  They share the actions and differ in the inputs.        *)
(***************************************************************************)
Docs == {DocInt5, DocNeg3, DocStrA}

Lines == {LineMixedArr}

Next ==
    \/ StatValueOp(Accs, Docs, MaxDocs)
    \/ StatStrOp(Accs, Lines, MaxDocs)
    \/ MergeOp(Accs)

Spec == Init /\ [][Next]_vars

\* one accumulator fed the lines of a file, some of which do not parse
NextText == StatStrOp({1}, GoodLines \cup BadLines, MaxFileLines)

SpecText == Init /\ [][NextText]_vars

\* numbers as written:  5  -3  3.0  2.5  -1.5  i64::MAX  i64::MAX+1
\* i64::MIN  i64::MIN-1  u64::MAX  u64::MAX+1  i64::MAX+0.5
\* ("-0" is left out: what it parses to depends on the serde_json release)
NumberLits ==
    {Lit(FALSE, NatToBits(5), "none"), Lit(TRUE, NatToBits(3), "none"),
     Lit(FALSE, NatToBits(3), "0"), Lit(FALSE, NatToBits(2), "5"),
     Lit(TRUE, NatToBits(1), "5"),
     Lit(FALSE, I64_MAX, "none"), Lit(FALSE, Pow2(I64_BITS), "none"),
     Lit(TRUE, I64_MIN_MAG, "none"), Lit(TRUE, BigInc(I64_MIN_MAG), "none"),
     Lit(FALSE, U64_MAX, "none"), Lit(FALSE, Pow2(U64_BITS), "none"),
     Lit(FALSE, I64_MAX, "5")}

NumberLines == {<<NumTok(lit)>> : lit \in NumberLits}

NextNum == StatStrOp({1}, NumberLines, MaxFileLines)

SpecNum == Init /\ [][NextNum]_vars

\* grouping: keys "user.id" and "user", or none
GroupKeys == {Some(s_user_id), Some(s_user), None}

GroupDocs == {DocU1, DocIdNotStr, DocUserNotObj, DocNoUser}

InitGroup == InitWith(GroupKeys)

NextGroup == StatValueOp(Accs, GroupDocs, MaxFileLines)

SpecGroup == InitGroup /\ [][NextGroup]_vars

\* field names with and without '.' and '[]'
FieldDocs == {DocDotName, DocArrName, DocNested, DocInt5, DocTopArr,
              DocFlt25, DocFltNeg15, DocStrArr}

NextFields == StatValueOp({1}, FieldDocs, MaxFileLines)

SpecFields == Init /\ [][NextFields]_vars

\* traversal order
TravDocs == {DocMixedArr, DocU1, DocArrName, DocTopArr}

NextTrav ==
    \/ TravBegin(TravDocs)
    \/ TravStep

SpecTrav == Init /\ [][NextTrav]_vars

(***************************************************************************)
(* What the documents contain, read off the documents themselves.           *)
(***************************************************************************)
Range(f) == {f[i] : i \in DOMAIN f}

RECURSIVE Nodes(_, _)
RECURSIVE NodesOfAll(_)
\* the (path, value) nodes of a value rooted at path: a field f is at
\* path.f and every element of an array at path[]
Nodes(path, v) ==
    <<<<path, v>>>> \o
    (CASE v.t = "Array" ->
            NodesOfAll([j \in 1..Len(v.a) |-> <<path \o <<"[", "]">>, v.a[j]>>])
       [] v.t = "Object" ->
            LET ks == SortedKeys(DOMAIN v.o) IN
            NodesOfAll([j \in 1..Len(ks) |-> <<path \o <<".">> \o ks[j], v.o[ks[j]]>>])
       [] OTHER -> <<>>)

NodesOfAll(pairs) ==
    IF pairs = <<>> THEN <<>>
    ELSE Nodes(Head(pairs)[1], Head(pairs)[2]) \o NodesOfAll(Tail(pairs))

\* the kind a value is counted under
KindOf(v) ==
    CASE v.t = "String" -> "string"
      [] v.t = "Number" -> IF as_i64(v.n).some THEN "int" ELSE "float"
      [] v.t = "Null"   -> "null"
      [] v.t = "Bool"   -> "bool"
      [] v.t = "Array"  -> "array"
      [] v.t = "Object" -> "object"

\* the quantity of a value that its ordered aggregate bounds
Measure(v) ==
    CASE v.t = "String" -> StrLen(v.s)
      [] v.t = "Array"  -> Len(v.a)
      [] v.t = "Number" -> IF as_i64(v.n).some THEN as_i64(v.n).v ELSE as_f64(v.n).v

\* all nodes of the documents folded into accumulator a, with repetitions
RECURSIVE NodesOfHist(_, _)
NodesOfHist(a, h) ==
    IF h = <<>> THEN <<>>
    ELSE Nodes(get_group_key(stat[a], input[Head(h)]), input[Head(h)])
            \o NodesOfHist(a, Tail(h))

\* the values of one kind observed at one path by accumulator a
Observed(a, path, kind) ==
    SelectSeq(NodesOfHist(a, hist[a]),
              LAMBDA n : n[1] = path /\ KindOf(n[2]) = kind)

\* the accumulator built by ingesting, in input order, the documents of input
\* whose positions are in P
RECURSIVE IngestFrom(_, _, _)
IngestFrom(self, i, P) ==
    IF i > Len(input) THEN self
    ELSE IngestFrom(IF i \in P THEN stat_value(self, input[i]) ELSE self, i + 1, P)

Sequential(a) ==
    IngestFrom([items |-> EmptyMap, group_key |-> stat[a].group_key], 1, Range(hist[a]))

NoRepeat(h) == \A i, j \in 1..Len(h) : h[i] = h[j] => i = j

(***************************************************************************)
(* Claims                                                                   *)
(***************************************************************************)

\* C1: an accumulator obtained by merging accumulators built from sublists of
\* the ingested documents holds exactly the mapping of one accumulator that
\* ingested the same documents in their original order.
C1_SequentialParallelEquivalence ==
    \A a \in Accs :
        NoRepeat(hist[a]) => stat[a].items = Sequential(a).items

\* C2: merge is associative and commutative: for any three accumulators A, B,
\* C, merge(merge(A,B),C), merge(A,merge(B,C)) and merge(B,merge(A,C)) have
\* the same mapping.
C2_MergeAssociativeCommutative ==
    \A a, b, c \in Accs :
            LET A == stat[a]
                B == stat[b]
                C == stat[c]
                AB_C == JsonStat_merge(JsonStat_merge(A, B), C).items
                A_BC == JsonStat_merge(A, JsonStat_merge(B, C)).items
                B_AC == JsonStat_merge(B, JsonStat_merge(A, C)).items
            IN  AB_C = A_BC /\ A_BC = B_AC

\* C3: for every path and every ordered kind with count n > 0, n is the number
\* of values of that kind observed at the path, min <= max, and min and max
\* are the least and the greatest of those values.
C3_MinMaxCorrect ==
    \A a \in Accs :
        \A path \in DOMAIN stat[a].items :
            \A kind \in OrderedKinds :
                LET agg == stat[a].items[path][kind]
                    T   == TypeOf(kind)
                    obs == {Measure(n[2]) : n \in Range(Observed(a, path, kind))}
                IN  agg.count > 0 =>
                        /\ agg.count = Len(Observed(a, path, kind))
                        /\ ~Lt(T, agg.max, agg.min)
                        /\ \E v \in obs : ~Lt(T, v, agg.min) /\ ~Lt(T, agg.min, v)
                        /\ \E v \in obs : ~Lt(T, v, agg.max) /\ ~Lt(T, agg.max, v)
                        /\ \A v \in obs : ~Lt(T, v, agg.min) /\ ~Lt(T, agg.max, v)

\* C8: every path present in a mapping has an item with at least one kind
\* whose count is greater than zero.
C8_NoZeroObservationItem ==
    \A a \in Accs :
        \A path \in DOMAIN stat[a].items :
            \E kind \in Kinds : stat[a].items[path][kind].count > 0

\* C8 witness: a merge has produced an accumulator with several paths, one of
\* them holding two kinds
C8_Witness ==
    /\ last.op = "merge"
    /\ Cardinality(DOMAIN stat[last.acc].items) >= 2
    /\ \E path \in DOMAIN stat[last.acc].items :
          Cardinality({kind \in Kinds : stat[last.acc].items[path][kind].count > 0}) >= 2

\* C9: combining a non-empty aggregate with an empty one leaves its count,
\* min and max unchanged; so merging an item with an item that observed only
\* another kind leaves the aggregates of all other kinds unchanged.
C9_MergeWithEmptyIsIdentity ==
    \A a \in Accs :
        \A path \in DOMAIN stat[a].items :
            LET item == stat[a].items[path]
                onlyNull == stat_key_value(path, JNull).item
            IN  /\ \A kind \in OrderedKinds :
                      item[kind].count > 0 =>
                          MaxMinCount_merge(TypeOf(kind), item[kind],
                                            MaxMinCount_new(TypeOf(kind))) = item[kind]
                /\ \A kind \in Kinds \ {"null"} :
                      JsonStatItem_merge(item, onlyNull)[kind] = item[kind]

\* the count of one kind at one path, zero if the path is absent
CountAt(self, path, kind) ==
    IF path \in DOMAIN self.items THEN self.items[path][kind].count ELSE 0

\* the sum of the seven counts at one path
SumCounts(self, path) ==
    CountAt(self, path, "string") + CountAt(self, path, "int")
    + CountAt(self, path, "float") + CountAt(self, path, "bool")
    + CountAt(self, path, "null") + CountAt(self, path, "object")
    + CountAt(self, path, "array")

\* C4: stat_str on a line that is not a JSON value returns false and leaves
\* the accumulator (paths, aggregates, grouping key) as it was; on a line that
\* is a JSON value it returns true.
C4_ParseFailureLeavesState ==
    [][last'.op = "stat_str" =>
          /\ last'.arg \in BadLines => (ret' = FALSE /\ stat' = stat)
          /\ last'.arg \in GoodLines => ret' = TRUE]_vars

\* C4 witness: "not json" was rejected by an accumulator that holds statistics
C4_Witness ==
    /\ last.op = "stat_str"
    /\ last.arg = LineNotJson
    /\ ret = FALSE
    /\ stat[last.acc].items # EmptyMap

\* the value written has no fractional part / fits the i64 range
NoFraction(lit) == lit.frac # "5"

FitsI64(lit) ==
    IF lit.neg THEN BigLeq(lit.mag, I64_MIN_MAG) ELSE BigLeq(lit.mag, I64_MAX)

\* the change of the int and float counts at the root path in a step that
\* ingests the number lit: exactly one is raised by one, int if toInt
NumberStep(lit, toInt) ==
    LET a  == last'.acc
        di == CountAt(stat'[a], <<>>, "int") - CountAt(stat[a], <<>>, "int")
        df == CountAt(stat'[a], <<>>, "float") - CountAt(stat[a], <<>>, "float")
    IN  IF toInt THEN di = 1 /\ df = 0 ELSE di = 0 /\ df = 1

\* C5 as stated: a number with no fractional part that fits i64, 3.0 included,
\* is recorded as int; every other number as float; never both.
C5_IntegralValueIsInt ==
    [][\A lit \in NumberLits :
          (last'.op = "stat_str" /\ last'.arg = <<NumTok(lit)>>) =>
              NumberStep(lit, NoFraction(lit) /\ FitsI64(lit))]_vars

\* C5 amended: a number written without a fraction part whose value fits i64
\* is recorded as int; every other number, 3.0 included, as float; never both.
C5_IntegerLiteralIsInt ==
    [][\A lit \in NumberLits :
          (last'.op = "stat_str" /\ last'.arg = <<NumTok(lit)>>) =>
              NumberStep(lit, lit.frac = "none" /\ FitsI64(lit))]_vars

\* C5 witness: 3.0 has been ingested and is counted as a float
C5_Witness ==
    /\ last.op = "stat_str"
    /\ last.arg = <<NumTok(Lit(FALSE, NatToBits(3), "0"))>>
    /\ CountAt(stat[last.acc], <<>>, "float") >= 1
    /\ CountAt(stat[last.acc], <<>>, "int") = 0

\* the group string of each document under each grouping key, read off the
\* documents: "u1" for {"user":{"id":"u1"},..} under user.id and for
\* {"user":"u1"} under user, the empty string otherwise
ExpectedGroup(key, d) ==
    IF key = Some(s_user_id) /\ d = DocU1 THEN s_u1
    ELSE IF key = Some(s_user) /\ d = DocUserNotObj THEN s_u1
    ELSE <<>>

\* C6 as stated: the statistics of the document go to the entry keyed by the
\* group string: under user.id, the int of field x of
\* {"user":{"id":"u1"},"x":1} is counted in the entry keyed "u1"; a document
\* whose walk fails is folded exactly as with no grouping key.
C6_FieldStatsInGroupEntry ==
    [][last'.op = "stat_value" =>
          LET a == last'.acc
              d == last'.arg
              g == ExpectedGroup(stat[a].group_key, d)
          IN  /\ (stat[a].group_key = Some(s_user_id) /\ d = DocU1) =>
                    CountAt(stat'[a], s_u1, "int") = CountAt(stat[a], s_u1, "int") + 1
              /\ g = <<>> =>
                    stat'[a].items
                      = stat_value([stat[a] EXCEPT !.group_key = None], d).items]_vars

\* C6 amended: the root value of the document is counted at the entry keyed by
\* the group string g and each field f of the document at the entry keyed
\* g.f (x at "u1.x"); a document whose walk fails is folded exactly as with
\* no grouping key.
C6_GroupPrefixesPaths ==
    [][last'.op = "stat_value" =>
          LET a == last'.acc
              d == last'.arg
              g == ExpectedGroup(stat[a].group_key, d)
          IN  /\ CountAt(stat'[a], g, KindOf(d)) = CountAt(stat[a], g, KindOf(d)) + 1
              /\ d.t = "Object" =>
                    \A f \in DOMAIN d.o :
                        CountAt(stat'[a], g \o <<".">> \o f, KindOf(d.o[f]))
                          >= CountAt(stat[a], g \o <<".">> \o f, KindOf(d.o[f])) + 1
              /\ g = <<>> =>
                    stat'[a].items
                      = stat_value([stat[a] EXCEPT !.group_key = None], d).items]_vars

\* C6 witness: under user.id, {"user":{"id":"u1"},"x":1} has been ingested and
\* x is counted at "u1.x", after a document that fell back to the empty group
C6_Witness ==
    /\ last.op = "stat_value"
    /\ last.arg = DocU1
    /\ stat[last.acc].group_key = Some(s_user_id)
    /\ CountAt(stat[last.acc], s_u1 \o <<".">> \o s_x, "int") >= 1
    /\ CountAt(stat[last.acc], <<>>, "object") >= 1

FieldNames == {s_x, s_a, s_b, s_user, s_a_dot_b, s_x_arr}

HasDot(f) == \E i \in 1..Len(f) : f[i] = "."

HasBrackets(f) == \E i \in 1..(Len(f) - 1) : f[i] = "[" /\ f[i + 1] = "]"

\* number of documents folded into a whose top-level object has field f
DocsWithField(a, f) ==
    Cardinality({i \in 1..Len(hist[a]) :
                    LET d == input[hist[a][i]] IN
                    d.t = "Object" /\ f \in DOMAIN d.o})

\* C7 as stated: with no grouping key, for every field name f, also one with
\* '.' or '[]' in it, the seven counts at path ".f" add up to the number of
\* documents whose top-level object has field f.
C7_CountConservation ==
    \A a \in Accs :
        ~stat[a].group_key.some =>
            \A f \in FieldNames :
                SumCounts(stat[a], <<".">> \o f) = DocsWithField(a, f)

\* C7 amended: the same for the field names that contain neither '.' nor '[]'.
C7_CountConservationPlainNames ==
    \A a \in Accs :
        ~stat[a].group_key.some =>
            \A f \in FieldNames :
                (~HasDot(f) /\ ~HasBrackets(f)) =>
                    SumCounts(stat[a], <<".">> \o f) = DocsWithField(a, f)

\* C7 witness: field x was present in two documents, next to a nested object
C7_Witness ==
    /\ SumCounts(stat[1], <<".">> \o s_x) = 2
    /\ DocsWithField(1, s_a) >= 1

\* the number of counted observations in a mapping
RECURSIVE TotalCount(_, _)
TotalCount(items, paths) ==
    IF paths = {} THEN 0
    ELSE LET p == CHOOSE q \in paths : TRUE IN
         SumCounts([items |-> items], p) + TotalCount(items, paths \ {p})

\* C10: whatever pending work item each turn of the traversal takes, when the
\* work list is empty the mapping is the one stat_value produces, and every
\* value node of the document has been counted exactly once.
C10_TraversalOrderIndependent ==
    (trav.active /\ trav.todo_list = <<>>) =>
        /\ trav.items
             = StatLoop(trav.start, << <<get_group_key(JsonStat_new, trav.doc), trav.doc>> >>)
        /\ TotalCount(trav.items, DOMAIN trav.items)
             = TotalCount(trav.start, DOMAIN trav.start) + Len(Nodes(<<>>, trav.doc))

====
